---- MODULE Spec2Model ----
(***************************************************************************)
(* Model of src/src/log/async_log.rs: the asynchronous appender.  Caller   *)
(* threads encode a record and send AsyncEvent::Log over an mpsc channel   *)
(* guarded by a Mutex; one worker thread receives, decodes, rewrites the   *)
(* path marker and calls the sink's sync_write; dropping the appender      *)
(* sends AsyncEvent::Terminate and joins the worker.                       *)
(***************************************************************************)
EXTENDS Integers, Sequences, FiniteSets, TLC

\* ------------------------------------------------------------------ bounds
NumThreads == 2
MaxAppends == 2
MaxPrior == 3
MaxParts == 4

Threads == 1..NumThreads

\* ------------------------------------------------------------ byte strings
Prefix(s, n) == SubSeq(s, 1, n)
Suffix(s, n) == SubSeq(s, n, Len(s))

\* The bytes of the string r"#FS" that opens the pattern, and of "#FE#".
FS_MARK == <<35, 70, 83>>
FE_MARK == <<35, 70, 69, 35>>
\* The class [/\\#] of the pattern.
IsSep(c) == c \in {47, 92, 35}

MSG_TERMINATOR == <<254, 253, 255>>

\* String::from_utf8: well-formed UTF-8 (RFC 3629 table), from position i.
RECURSIVE Utf8From(_, _)
Utf8From(s, i) ==
    IF i > Len(s) THEN TRUE
    ELSE LET b == s[i]
             Cont(j) == j <= Len(s) /\ s[j] \in 128..191
         IN  IF b < 128 THEN Utf8From(s, i + 1)
             ELSE IF b \in 194..223 THEN Cont(i + 1) /\ Utf8From(s, i + 2)
             ELSE IF b \in 224..239
                  THEN /\ Cont(i + 1) /\ Cont(i + 2)
                       /\ (b = 224 => s[i + 1] >= 160)
                       /\ (b = 237 => s[i + 1] <= 159)
                       /\ Utf8From(s, i + 3)
             ELSE IF b \in 240..244
                  THEN /\ Cont(i + 1) /\ Cont(i + 2) /\ Cont(i + 3)
                       /\ (b = 240 => s[i + 1] >= 144)
                       /\ (b = 244 => s[i + 1] <= 143)
                       /\ Utf8From(s, i + 4)
             ELSE FALSE

from_utf8(s) == Utf8From(s, 1)

\* ------------------------------------------------- the path-marker rewrite
HasAt(s, i, lit) ==
    /\ i >= 1
    /\ i + Len(lit) - 1 <= Len(s)
    /\ \A j \in 1..Len(lit) : s[i + j - 1] = lit[j]

\* [^#]+ followed by "#FE#": the run behind the separator ends at the first
\* '#' at or after position r (0 when there is none).
RECURSIVE NextHash(_, _)
NextHash(s, r) ==
    IF r > Len(s) THEN 0
    ELSE IF s[r] = 35 THEN r
    ELSE NextHash(s, r + 1)

\* No newline in s[a..b]: the dot of `.*` does not match one.
RECURSIVE NoNewline(_, _, _)
NoNewline(s, a, b) ==
    IF a > b THEN TRUE
    ELSE IF s[a] = 10 THEN FALSE
    ELSE NoNewline(s, a + 1, b)

\* The separator of a match starting at st can sit at q: "#FS" at st, then
\* #?.* (no newline) up to q - 1, a separator at q, one or more non-'#'
\* bytes, "#FE#".
SepAt(s, st, q) ==
    /\ q >= st + 3
    /\ q <= Len(s)
    /\ IsSep(s[q])
    /\ NoNewline(s, st + 3, q - 1)
    /\ NextHash(s, q + 1) >= q + 2
    /\ HasAt(s, NextHash(s, q + 1), FE_MARK)

\* `.*` is greedy: the separator is the last position at or before q that
\* lets the rest of the pattern match (0 when none does).
RECURSIVE LastSep(_, _, _)
LastSep(s, st, q) ==
    IF q < st + 3 THEN 0
    ELSE IF SepAt(s, st, q) THEN q
    ELSE LastSep(s, st, q - 1)

\* The leftmost position at or after st where the pattern matches (0 when
\* there is none).
RECURSIVE FirstMatch(_, _)
FirstMatch(s, st) ==
    IF st > Len(s) THEN 0
    ELSE IF HasAt(s, st, FS_MARK) /\ LastSep(s, st, Len(s)) # 0 THEN st
    ELSE FirstMatch(s, st + 1)

\* The match that starts at st (0: there is none): its separator and where
\* its "#FE#" starts; group 1 lies between the two.
capture_at(s, st) ==
    IF st = 0 THEN [found |-> FALSE, st |-> 0, q |-> 0, r |-> 0]
    ELSE CHOOSE c \in { [found |-> TRUE, st |-> st, q |-> q, r |-> NextHash(s, q + 1)] :
                            q \in {LastSep(s, st, Len(s))} } : TRUE

\* re.captures: the leftmost match.
captures(s) == CHOOSE c \in { capture_at(s, st) : st \in {FirstMatch(s, 1)} } : TRUE

\* [0-9A-Za-z_]: the bytes of a group reference.
IsWord(c) == c \in (48..57) \cup (65..90) \cup (97..122) \cup {95}

\* The end (exclusive) of the run of word bytes that starts at i.
RECURSIVE WordEnd(_, _)
WordEnd(s, i) ==
    IF i > Len(s) THEN i
    ELSE IF IsWord(s[i]) THEN WordEnd(s, i + 1)
    ELSE i

\* The number a run of digits denotes, or -1 when it is no number.
RECURSIVE ParseIndex(_, _, _)
ParseIndex(s, i, e) ==
    IF e <= i THEN 0
    ELSE IF s[e - 1] \notin 48..57 THEN -1
    ELSE IF ParseIndex(s, i, e - 1) = -1 THEN -1
    ELSE 10 * ParseIndex(s, i, e - 1) + (s[e - 1] - 48)

\* What a reference $ref stands for: group 0 is the whole match, group 1
\* the name; the pattern has no other group and no named group.
GroupText(idx, whole, name) ==
    IF idx = 0 THEN whole ELSE IF idx = 1 THEN name ELSE <<>>

\* Captures::expand on the replacement string (a &str replacement is
\* expanded): $ref becomes the group's text, $$ becomes $, any other $
\* stays.
RECURSIVE expand(_, _, _, _)
expand(rep, i, whole, name) ==
    IF i > Len(rep) THEN <<>>
    ELSE IF rep[i] # 36 THEN <<rep[i]>> \o expand(rep, i + 1, whole, name)
    ELSE IF WordEnd(rep, i + 1) > i + 1
         THEN GroupText(ParseIndex(rep, i + 1, WordEnd(rep, i + 1)), whole, name)
                  \o expand(rep, WordEnd(rep, i + 1), whole, name)
    ELSE IF i + 1 <= Len(rep) /\ rep[i + 1] = 36
         THEN <<36>> \o expand(rep, i + 2, whole, name)
    ELSE <<36>> \o expand(rep, i + 1, whole, name)

\* Regex::replace: the text with the match st..r+3 replaced by the expanded
\* replacement string, which is group 1, s[q+1..r-1].
replace_span(s, st, q, r) ==
    Prefix(s, st - 1)
        \o expand(SubSeq(s, q + 1, r - 1), 1, SubSeq(s, st, r + 3), SubSeq(s, q + 1, r - 1))
        \o Suffix(s, r + 4)

\* Line 372-375: when the pattern matches and group 1 took part, the first
\* match is replaced by group 1 (re.replace); otherwise the text is kept.
Rewrite(s) ==
    CHOOSE t \in { IF c.found THEN replace_span(s, c.st, c.q, c.r) ELSE s :
                       c \in {captures(s)} } : TRUE

\* ------------------------------------------------------------------ inputs
\* What an encoder can put in the buffer: "a", "b", a byte that is no UTF-8,
\* and a text with a marked path, "#FS/bc#FE#".
EncoderOutputs ==
    { <<97>>, <<98>>, <<255>>, <<35, 70, 83, 47, 98, 99, 35, 70, 69, 35>> }

\* What the file at `path` holds before the builder opens it.
PriorContents == { [i \in 1..n |-> 119 + i] : n \in {0, MaxPrior} }

\* The four builders; only the file builder has the append flag.
Configs ==
    { [kind |-> k, append |-> TRUE, prior |-> <<>>] :
          k \in {"Stdout", "TcpStream", "WebSocket"} }
    \cup { [kind |-> "File", append |-> a, prior |-> p] :
               a \in BOOLEAN, p \in PriorContents }

VARIABLES
    cfg,        \* the builder's settings (never change)
    out,        \* bytes at the destination: console, file content, wire
    pos,        \* the File's cursor (offset of the next write)
    frames,     \* messages sent on the WebSocket
    queue,      \* the mpsc channel's content
    txAlive,    \* the Sender exists
    rxAlive,    \* the Receiver exists (the worker closure owns it)
    lock,       \* holder of the Mutex around the Sender: a thread, or 0
    pc,         \* per caller thread: "idle", "lock", "send"
    cmsg,       \* per caller thread: the encoded buffer `msg`
    ret,        \* per caller thread: what its last append returned
    calls,      \* per caller thread: number of append calls made
    wpc,        \* worker: "recv" (Running, at rx.iter()), "write", "done"
    wmsg,       \* worker: the text handed to sync_write (and, as history, how
                \* many events the queue had accepted when it was received)
    apc,        \* owner: "alive", "lock", "sent", "join", "dropped"
    accepted,   \* history: the Log events the queue took, in order
    deq,        \* history: tags of the Log events the worker received
    writes,     \* history: the sync_write calls, in order, with the bytes each
                \* one got to the destination
    results,    \* history: what each append call returned
    pendingAtDrop, \* history: Log events queued when Terminate was sent
    config,     \* the Value handed to a creator's deserialize (moved into it)
    created,    \* what deserialize returned: "None" (not called), "Ok", an error
    sinkOpened  \* history: the sink was opened / connected

vars == <<cfg, out, pos, frames, queue, txAlive, rxAlive, lock, pc, cmsg, ret,
          calls, wpc, wmsg, apc, accepted, deq, writes, results, pendingAtDrop,
          config, created, sinkOpened>>

sinkVars == <<out, pos, frames>>
callerVars == <<pc, cmsg, ret, calls>>
histVars == <<accepted, deq, writes, results, pendingAtDrop>>
ctorVars == <<config, created, sinkOpened>>

NoMsg == [tag |-> <<0, 0>>, buf |-> <<>>, seen |-> 0]

Log(tag, bytes) == [type |-> "Log", tag |-> tag, msg |-> bytes]
Terminate == [type |-> "Terminate", tag |-> <<0, 0>>, msg |-> <<>>]

\* AsyncFileAppenderBuilder::build: write(true).append(append).create(true);
\* the file keeps what it holds and the cursor starts at 0.
OpenFile(c) == [content |-> c.prior, cursor |-> 0]

\* No Value: the config was moved into deserialize.
NoConfig ==
    [creator |-> "None", map |-> FALSE, path |-> "Absent", append |-> "Absent",
     server_addr |-> "Absent", no_delay |-> "Absent", server_url |-> "Absent",
     pattern |-> "Absent"]

Init ==
    /\ config = NoConfig
    /\ created = "Ok"
    /\ sinkOpened = TRUE
    /\ cfg \in Configs
    /\ out = IF cfg.kind = "File" THEN OpenFile(cfg).content ELSE <<>>
    /\ pos = IF cfg.kind = "File" THEN OpenFile(cfg).cursor ELSE 0
    /\ frames = <<>>
    /\ queue = <<>>
    /\ txAlive = TRUE
    /\ rxAlive = TRUE
    /\ lock = 0
    /\ pc = [t \in Threads |-> "idle"]
    /\ cmsg = [t \in Threads |-> <<>>]
    /\ ret = [t \in Threads |-> "None"]
    /\ calls = [t \in Threads |-> 0]
    /\ wpc = "recv"
    /\ wmsg = NoMsg
    /\ apc = "alive"
    /\ accepted = <<>>
    /\ deq = <<>>
    /\ writes = <<>>
    /\ results = {}
    /\ pendingAtDrop = 0

RECURSIVE SumCalls(_)
SumCalls(S) ==
    IF S = {} THEN 0
    ELSE LET t == CHOOSE x \in S : TRUE IN calls[t] + SumCalls(S \ {t})

\* ------------------------------------------------------------------ append
\* An append that discards the encoder's error and goes on to send.
ignore_encode_Err == "lock"

\* try! at line 398: on an encoder error append returns; the call is over.
try_encode_Err == "idle"

\* append, line 397-398: encode into a fresh buffer; an encoder error is
\* returned at once (try!).  The caller threads are interchangeable: they
\* are numbered in the order of their first call.
append_encode(t) ==
    /\ apc = "alive"
    /\ pc[t] = "idle"
    /\ \A u \in 1..(t - 1) : calls[u] > 0
    /\ SumCalls(Threads) < MaxAppends
    /\ calls' = [calls EXCEPT ![t] = @ + 1]
    /\ \E ok \in BOOLEAN :
          IF ok
          THEN \E bytes \in EncoderOutputs :
                  /\ cmsg' = [cmsg EXCEPT ![t] = bytes]
                  /\ pc' = [pc EXCEPT ![t] = "lock"]
                  /\ ret' = [ret EXCEPT ![t] = "None"]
          ELSE /\ ret' = [ret EXCEPT ![t] = "EncodeErr"]
               /\ pc' = [pc EXCEPT ![t] = try_encode_Err]
               /\ UNCHANGED cmsg
    /\ results' = IF ret'[t] = "EncodeErr"
                  THEN results \cup {[tag |-> <<t, calls'[t]>>, res |-> "EncodeErr"]}
                  ELSE results
    /\ UNCHANGED <<cfg, ctorVars, sinkVars, queue, txAlive, rxAlive, lock, wpc, wmsg, apc,
                   accepted, deq, writes, pendingAtDrop>>

\* append, line 399: self.tx.lock()
append_lock(t) ==
    /\ pc[t] = "lock"
    /\ lock = 0
    /\ lock' = t
    /\ pc' = [pc EXCEPT ![t] = "send"]
    /\ UNCHANGED <<cfg, ctorVars, sinkVars, queue, txAlive, rxAlive, cmsg, ret, calls, wpc,
                   wmsg, apc, histVars>>

\* A bounded channel of capacity 1 (sync_channel): send waits for room.
sync_channel_ready == Len(queue) < 1

\* mpsc::channel() is unbounded: send never waits.
send_ready == TRUE

\* try_send on a bounded channel of capacity 1: an error when it is full.
try_send(ev) ==
    IF rxAlive /\ Len(queue) < 1
    THEN [ok |-> TRUE, queue |-> Append(queue, ev)]
    ELSE [ok |-> FALSE, queue |-> queue]

\* A channel that hands out the newest event first.
send_front(ev) ==
    IF rxAlive
    THEN [ok |-> TRUE, queue |-> <<ev>> \o queue]
    ELSE [ok |-> FALSE, queue |-> queue]

\* Sender::send on the unbounded channel: fails only when the Receiver is
\* gone; otherwise the event goes to the back of the queue.
send(ev) ==
    IF rxAlive
    THEN [ok |-> TRUE, queue |-> Append(queue, ev)]
    ELSE [ok |-> FALSE, queue |-> queue]

\* A guard that outlives the statement: the Mutex stays with thread t.
leak_guard(t) == t

\* The MutexGuard is a temporary of the statement at line 399: it is dropped
\* when the statement ends and the Mutex is free again.
release_guard(t) == 0

\* append, line 399-400: send the Log event, release the guard at the end of
\* the statement, return the send's result.
append_send(t) ==
    /\ pc[t] = "send"
    /\ lock = t
    /\ send_ready
    /\ LET tag == <<t, calls[t]>>
           r == send(Log(tag, cmsg[t]))
       IN  /\ queue' = r.queue
           /\ ret' = [ret EXCEPT ![t] = IF r.ok THEN "Ok" ELSE "SendErr"]
           /\ results' = results \cup {[tag |-> tag, res |-> ret'[t]]}
           /\ accepted' = IF r.queue # queue
                          THEN Append(accepted, [tag |-> tag, msg |-> cmsg[t]])
                          ELSE accepted
    /\ lock' = release_guard(t)
    /\ pc' = [pc EXCEPT ![t] = "idle"]
    /\ cmsg' = [cmsg EXCEPT ![t] = <<>>]
    /\ UNCHANGED <<cfg, ctorVars, sinkVars, txAlive, rxAlive, calls, wpc, wmsg, apc, deq,
                   writes, pendingAtDrop>>

\* ------------------------------------------------------------------ sinks
\* What the destination does with one sync_write: n bytes of the payload
\* taken by write_all (fewer than all of them is an error), m bytes of the
\* terminator that a write_all of it gets through (TcpStream), and whether
\* flush succeeds (Stdout).
IoOutcomes(kind, buf) ==
    { o \in [n : 0..Len(buf), m : 0..Len(MSG_TERMINATOR), flush : BOOLEAN] :
        /\ (kind # "TcpStream" => o.m = 0)
        /\ (kind # "Stdout" => o.flush)
        /\ (kind = "Stdout" /\ o.n < Len(buf) => o.flush)
        /\ (kind = "WebSocket" => o.n \in {0, Len(buf)}) }

\* Bytes written at offset p (0-based) of a file: they replace what is
\* there and extend the file past its end.
WriteAt(content, p, bytes) ==
    Prefix(content, p) \o bytes \o Suffix(content, p + Len(bytes) + 1)

\* A console writer that ends every record with the terminator.
sync_write_terminated(s, buf, o) ==
    [out |-> s.out \o Prefix(buf, o.n) \o MSG_TERMINATOR, pos |-> s.pos,
     frames |-> s.frames, ok |-> (o.n = Len(buf) /\ o.flush),
     sent |-> Prefix(buf, o.n) \o MSG_TERMINATOR]

\* impl SyncWrite for Stdout: write_all, then flush.
sync_write_Stdout(s, buf, o) ==
    [out |-> s.out \o Prefix(buf, o.n), pos |-> s.pos, frames |-> s.frames,
     ok |-> (o.n = Len(buf) /\ o.flush), sent |-> Prefix(buf, o.n)]

\* impl SyncWrite for File: write_all, then flush (a no-op on a File).  In
\* append mode every write lands at the end of the file.
sync_write_File(s, buf, o) ==
    LET p == IF cfg.append THEN Len(s.out) ELSE s.pos
    IN  [out |-> WriteAt(s.out, p, Prefix(buf, o.n)), pos |-> p + o.n,
         frames |-> s.frames, ok |-> (o.n = Len(buf)), sent |-> Prefix(buf, o.n)]

\* A stream write that sends the payload alone, like the other sinks.
sync_write_unframed(s, buf, o) ==
    [out |-> s.out \o Prefix(buf, o.n), pos |-> s.pos, frames |-> s.frames,
     ok |-> (o.n = Len(buf)), sent |-> Prefix(buf, o.n)]

\* A stream write that sends the terminator whatever became of the payload
\* (the payload's result is kept and returned afterwards).
sync_write_always_terminated(s, buf, o) ==
    [out |-> s.out \o Prefix(buf, o.n) \o Prefix(MSG_TERMINATOR, o.m), pos |-> s.pos,
     frames |-> s.frames, ok |-> (o.n = Len(buf) /\ o.m = Len(MSG_TERMINATOR)),
     sent |-> Prefix(buf, o.n) \o Prefix(MSG_TERMINATOR, o.m)]

\* impl SyncWrite for TcpStream: write_all of the payload and, only when it
\* succeeded (try!), write_all of MSG_TERMINATOR.
sync_write_TcpStream(s, buf, o) ==
    IF o.n < Len(buf)
    THEN [out |-> s.out \o Prefix(buf, o.n), pos |-> s.pos, frames |-> s.frames,
          ok |-> FALSE, sent |-> Prefix(buf, o.n)]
    ELSE [out |-> s.out \o buf \o Prefix(MSG_TERMINATOR, o.m), pos |-> s.pos,
          frames |-> s.frames, ok |-> (o.m = Len(MSG_TERMINATOR)),
          sent |-> buf \o Prefix(MSG_TERMINATOR, o.m)]

\* WebSocket::write_all: one message carrying the payload, or nothing.
WebSocket_write_all(s, buf, o) ==
    IF o.n = Len(buf)
    THEN [out |-> s.out, pos |-> s.pos, frames |-> Append(s.frames, buf), ok |-> TRUE,
          sent |-> buf]
    ELSE [out |-> s.out, pos |-> s.pos, frames |-> s.frames, ok |-> FALSE,
          sent |-> <<>>]

\* impl SyncWrite for WebSocket
sync_write_WebSocket(s, buf, o) == WebSocket_write_all(s, buf, o)

\* writer.sync_write(&msg), dispatched on the writer's type W.
sync_write(s, buf, o) ==
    CASE cfg.kind = "Stdout" -> sync_write_Stdout(s, buf, o)
      [] cfg.kind = "File" -> sync_write_File(s, buf, o)
      [] cfg.kind = "TcpStream" -> sync_write_TcpStream(s, buf, o)
      [] cfg.kind = "WebSocket" -> sync_write_WebSocket(s, buf, o)

\* ------------------------------------------------------------------ worker
\* A Log arm that unwraps the decoding: the worker thread dies on bytes
\* that are no UTF-8.
log_arm_unwrap(event) ==
    IF from_utf8(event.msg)
    THEN [wpc |-> "write",
          wmsg |-> [tag |-> event.tag, buf |-> Rewrite(event.msg), seen |-> Len(accepted)]]
    ELSE [wpc |-> "done", wmsg |-> NoMsg]

\* The AsyncEvent::Log arm, line 369-381: `if let Ok(..) = String::from_utf8`
\* has no else; the rewritten text is what sync_write gets.
log_arm(event) ==
    IF from_utf8(event.msg)
    THEN [wpc |-> "write",
          wmsg |-> [tag |-> event.tag, buf |-> Rewrite(event.msg), seen |-> Len(accepted)]]
    ELSE [wpc |-> "recv", wmsg |-> NoMsg]

\* A Terminate arm that goes on with the loop.
terminate_arm_continue == "recv"

\* `AsyncEvent::Terminate => break`: the loop, and with it the thread, ends.
terminate_arm == "done"

\* A non-blocking iterator (try_iter): it ends when the queue is empty.
try_iter_ready == TRUE

\* rx.iter() blocks until an event is queued or the Sender is gone.
iter_ready == queue # <<>> \/ ~txAlive

\* An iterator that loses the event behind the one it hands out.
iter_next_lossy(q) ==
    [event |-> Head(q), queue |-> IF Len(q) >= 2 THEN Tail(Tail(q)) ELSE Tail(q)]

\* rx.iter()'s next: the event at the front leaves the queue.
iter_next(q) == [event |-> Head(q), queue |-> Tail(q)]

\* The worker's `for event in rx.iter()` and its match: Terminate breaks;
\* a Log that is no UTF-8 is skipped; otherwise the text is rewritten and
\* goes to sync_write.  The iterator also ends when the channel is empty
\* and the Sender is gone.
worker_recv ==
    /\ wpc = "recv"
    /\ iter_ready
    /\ IF queue = <<>>
       THEN /\ wpc' = "done"
            /\ rxAlive' = FALSE
            /\ UNCHANGED <<queue, wmsg, deq>>
       ELSE LET event == iter_next(queue).event
            IN  /\ queue' = iter_next(queue).queue
                /\ IF event.type = "Terminate"
                   THEN /\ wpc' = terminate_arm
                        /\ rxAlive' = (wpc' # "done")
                        /\ UNCHANGED <<wmsg, deq>>
                   ELSE /\ deq' = Append(deq, event.tag)
                        /\ wmsg' = log_arm(event).wmsg
                        /\ wpc' = log_arm(event).wpc
                        /\ rxAlive' = (wpc' # "done")
    /\ UNCHANGED <<cfg, ctorVars, sinkVars, txAlive, lock, callerVars, apc, accepted, writes,
                   results, pendingAtDrop>>

\* A worker that propagates the write's error (try!) and so ends.
after_write_try(result) == IF result THEN "recv" ELSE "done"

\* `let _ = writer.sync_write(&msg);` the result is ignored and the loop
\* goes on to the next event.
after_write(result) == "recv"

worker_write ==
    /\ wpc = "write"
    /\ \E o \in IoOutcomes(cfg.kind, wmsg.buf) :
          LET r == sync_write([out |-> out, pos |-> pos, frames |-> frames], wmsg.buf, o)
          IN  /\ out' = r.out
              /\ pos' = r.pos
              /\ frames' = r.frames
              /\ writes' = Append(writes, [tag |-> wmsg.tag, buf |-> wmsg.buf, ok |-> r.ok,
                                           sent |-> r.sent])
              /\ wpc' = after_write(r.ok)
    /\ rxAlive' = (wpc' # "done")
    /\ wmsg' = NoMsg
    /\ UNCHANGED <<cfg, ctorVars, queue, txAlive, lock, callerVars, apc, accepted, deq,
                   results, pendingAtDrop>>

\* -------------------------------------------------------------------- drop
\* The owner releases the appender: drop needs &mut self, so no append is
\* running and none can start afterwards.
drop_begin ==
    /\ apc = "alive"
    /\ \A t \in Threads : pc[t] = "idle"
    /\ apc' = "lock"
    /\ UNCHANGED <<cfg, ctorVars, sinkVars, queue, txAlive, rxAlive, lock, callerVars, wpc, wmsg,
                   histVars>>

\* A teardown whose Terminate overtakes the events already queued.
drop_send_overtaking ==
    /\ apc = "lock"
    /\ lock = 0
    /\ queue' = <<Terminate>> \o queue
    /\ pendingAtDrop' = Len(queue)
    /\ apc' = "sent"
    /\ UNCHANGED <<cfg, ctorVars, sinkVars, txAlive, rxAlive, lock, callerVars, wpc, wmsg,
                   accepted, deq, writes, results>>

\* Drop::drop, line 406: lock, send Terminate, ignore the result.
drop_send ==
    /\ apc = "lock"
    /\ lock = 0
    /\ queue' = send(Terminate).queue
    /\ pendingAtDrop' = Len(queue)
    /\ apc' = "sent"
    /\ UNCHANGED <<cfg, ctorVars, sinkVars, txAlive, rxAlive, lock, callerVars, wpc, wmsg,
                   accepted, deq, writes, results>>

\* The fields are dropped in declaration order: encoder, tx, _raii_joiner.
drop_tx ==
    /\ apc = "sent"
    /\ txAlive' = FALSE
    /\ apc' = "join"
    /\ UNCHANGED <<cfg, ctorVars, sinkVars, queue, rxAlive, lock, callerVars, wpc, wmsg, histVars>>

\* Joiner's drop joins the thread: it returns once the worker has returned.
Joiner_drop == wpc = "done"

\* A plain JoinHandle in place of the Joiner: dropping it detaches the
\* thread instead of joining it.
drop_detached ==
    /\ apc = "join"
    /\ apc' = "dropped"
    /\ UNCHANGED <<cfg, ctorVars, sinkVars, queue, txAlive, rxAlive, lock, callerVars, wpc, wmsg,
                   histVars>>

\* The _raii_joiner field of AsyncAppender.
drop_raii_joiner ==
    /\ apc = "join"
    /\ Joiner_drop
    /\ apc' = "dropped"
    /\ UNCHANGED <<cfg, ctorVars, sinkVars, queue, txAlive, rxAlive, lock, callerVars, wpc, wmsg,
                   histVars>>

\* ------------------------------------------------------------ construction
\* What a key of the config map can hold where a string is expected ("Bad":
\* a string that SocketAddr::from_str rejects), and where a bool is.
StringSettings == {"Absent", "NotString", "Str"}
AddrSettings == {"Absent", "NotString", "Bad", "Str"}
BoolSettings == {"Absent", "NotBool", "True", "False"}

\* The Values a creator can be handed: not a map, or a map with its keys.
ConfigValues(creator) ==
    { [NoConfig EXCEPT !.creator = creator] }
    \cup { [creator |-> creator, map |-> TRUE, path |-> p, append |-> a,
            server_addr |-> sa, no_delay |-> nd, server_url |-> u, pattern |-> pt] :
              p \in IF creator = "File" THEN StringSettings ELSE {"Absent"},
              a \in IF creator = "File" THEN BoolSettings ELSE {"Absent"},
              sa \in IF creator = "TcpStream" THEN AddrSettings ELSE {"Absent"},
              nd \in IF creator = "TcpStream" THEN BoolSettings ELSE {"Absent"},
              u \in IF creator = "WebSocket" THEN StringSettings ELSE {"Absent"},
              pt \in StringSettings }

\* A creator has been handed a Value and deserialize has not run: there is
\* no appender, no channel and no worker thread; the builders' defaults
\* (append: true) apply; a file may exist at `path`.
CreatorInit ==
    /\ \E k \in {"Stdout", "File", "TcpStream", "WebSocket"} :
          /\ config \in ConfigValues(k)
          /\ cfg \in { [kind |-> k, append |-> TRUE, prior |-> p] :
                          p \in IF k = "File" THEN PriorContents ELSE {<<>>} }
    /\ created = "None"
    /\ sinkOpened = FALSE
    /\ out = cfg.prior
    /\ pos = 0
    /\ frames = <<>>
    /\ queue = <<>>
    /\ txAlive = FALSE
    /\ rxAlive = FALSE
    /\ lock = 0
    /\ pc = [t \in Threads |-> "idle"]
    /\ cmsg = [t \in Threads |-> <<>>]
    /\ ret = [t \in Threads |-> "None"]
    /\ calls = [t \in Threads |-> 0]
    /\ wpc = "none"
    /\ wmsg = NoMsg
    /\ apc = "none"
    /\ accepted = <<>>
    /\ deq = <<>>
    /\ writes = <<>>
    /\ results = {}
    /\ pendingAtDrop = 0

\* parse_pattern: only a `pattern` that is no string is an error.
parse_pattern(map) ==
    IF map.pattern = "NotString" THEN "pattern must be a string" ELSE "Ok"

\* An early return that has spawned the worker thread all the same.
return_Err_spawned(err, opened) ==
    /\ created' = err
    /\ sinkOpened' = opened
    /\ wpc' = "recv"
    /\ UNCHANGED <<cfg, sinkVars, queue, txAlive, rxAlive, lock, callerVars, wmsg, apc,
                   histVars>>

\* `return Err(..)` and the error arm of try!: deserialize (or build) returns
\* the error; nothing was spawned and no AsyncAppender exists.  A stream
\* that was connected before the error is dropped again.
return_Err(err, opened) ==
    /\ created' = err
    /\ sinkOpened' = opened
    /\ UNCHANGED <<cfg, sinkVars, queue, txAlive, rxAlive, lock, callerVars, wpc, wmsg,
                   apc, histVars>>

\* AsyncAppender::new: the channel, the worker thread (Running, at
\* rx.iter()), and the appender with the Sender in its Mutex.
AsyncAppender_new(c) ==
    /\ cfg' = c
    /\ out' = IF c.kind = "File" THEN OpenFile(c).content ELSE <<>>
    /\ pos' = IF c.kind = "File" THEN OpenFile(c).cursor ELSE 0
    /\ frames' = <<>>
    /\ queue' = <<>>
    /\ txAlive' = TRUE
    /\ rxAlive' = TRUE
    /\ lock' = 0
    /\ wpc' = "recv"
    /\ wmsg' = NoMsg
    /\ apc' = "alive"
    /\ created' = "Ok"
    /\ sinkOpened' = TRUE
    /\ UNCHANGED <<callerVars, histVars>>

\* AsyncConsoleAppenderBuilder::build: io::stdout() cannot fail.
AsyncConsoleAppenderBuilder_build == AsyncAppender_new(cfg)

\* AsyncFileAppenderBuilder::build: try!(open), then AsyncAppender::new.
AsyncFileAppenderBuilder_build(append) ==
    \E open_ok \in BOOLEAN :
        IF open_ok
        THEN AsyncAppender_new([cfg EXCEPT !.append = append])
        ELSE return_Err("io::Error", FALSE)

\* AsyncServerAppenderBuilder::build: try!(connect), try!(set_nodelay), then
\* AsyncAppender::new.
AsyncServerAppenderBuilder_build ==
    \E connect_ok \in BOOLEAN, set_nodelay_ok \in BOOLEAN :
        IF ~connect_ok THEN return_Err("io::Error", FALSE)
        ELSE IF ~set_nodelay_ok THEN return_Err("io::Error", TRUE)
        ELSE AsyncAppender_new(cfg)

\* AsyncWebSockAppenderBuilder::build: try!(WebSocket::new), then
\* AsyncAppender::new.
AsyncWebSockAppenderBuilder_build ==
    \E ws_ok \in BOOLEAN :
        IF ws_ok THEN AsyncAppender_new(cfg) ELSE return_Err("io::Error", FALSE)

\* AsyncConsoleAppenderCreator::deserialize
deserialize_Console ==
    /\ created = "None"
    /\ config.creator = "Stdout"
    /\ config' = NoConfig
    /\ IF ~config.map THEN return_Err("config must be a map", FALSE)
       ELSE IF parse_pattern(config) # "Ok" THEN return_Err(parse_pattern(config), FALSE)
       ELSE AsyncConsoleAppenderBuilder_build

\* AsyncFileAppenderCreator::deserialize
deserialize_File ==
    /\ created = "None"
    /\ config.creator = "File"
    /\ config' = NoConfig
    /\ IF ~config.map THEN return_Err("config must be a map", FALSE)
       ELSE IF config.path = "NotString" THEN return_Err("path must be a string", FALSE)
       ELSE IF config.path = "Absent" THEN return_Err("path is required", FALSE)
       ELSE IF config.append = "NotBool" THEN return_Err("append must be a bool", FALSE)
       ELSE IF parse_pattern(config) # "Ok" THEN return_Err(parse_pattern(config), FALSE)
       ELSE AsyncFileAppenderBuilder_build(config.append \in {"True", "Absent"})

\* AsyncServerAppenderCreator::deserialize
deserialize_Server ==
    /\ created = "None"
    /\ config.creator = "TcpStream"
    /\ config' = NoConfig
    /\ IF ~config.map THEN return_Err("config must be a map", FALSE)
       ELSE IF config.server_addr = "Bad" THEN return_Err("AddrParseError", FALSE)
       ELSE IF config.server_addr = "NotString"
            THEN return_Err("server_addr must be a string", FALSE)
       ELSE IF config.server_addr = "Absent"
            THEN return_Err("server_addr is required", FALSE)
       ELSE IF config.no_delay = "NotBool"
            THEN return_Err("no_delay must be a boolean", FALSE)
       ELSE IF parse_pattern(config) # "Ok" THEN return_Err(parse_pattern(config), FALSE)
       ELSE AsyncServerAppenderBuilder_build

\* AsyncWebSockAppenderCreator::deserialize
deserialize_WebSock ==
    /\ created = "None"
    /\ config.creator = "WebSocket"
    /\ config' = NoConfig
    /\ IF ~config.map THEN return_Err("config must be a map", FALSE)
       ELSE IF config.server_url = "NotString"
            THEN return_Err("server_url must be a string", FALSE)
       ELSE IF config.server_url = "Absent"
            THEN return_Err("server_url is required", FALSE)
       ELSE IF parse_pattern(config) # "Ok" THEN return_Err(parse_pattern(config), FALSE)
       ELSE AsyncWebSockAppenderBuilder_build

Next ==
    \/ \E t \in Threads : append_encode(t)
    \/ \E t \in Threads : append_lock(t)
    \/ \E t \in Threads : append_send(t)
    \/ worker_recv
    \/ worker_write
    \/ drop_begin
    \/ drop_send
    \/ drop_tx
    \/ drop_raii_joiner

Spec == Init /\ [][Next]_vars

\* The program from the moment a creator is handed its config.
CreatorNext ==
    \/ deserialize_Console
    \/ deserialize_File
    \/ deserialize_Server
    \/ deserialize_WebSock
    \/ Next

CreatorSpec == CreatorInit /\ [][CreatorNext]_vars

\* The worker thread and the dropping thread are scheduled, and a sink
\* write that was started returns.
FairSpec ==
    /\ Spec
    /\ WF_vars(worker_recv)
    /\ WF_vars(worker_write)
    /\ WF_vars(drop_send)
    /\ WF_vars(drop_tx)
    /\ WF_vars(drop_raii_joiner)

\* Only the caller threads are scheduled (a thread waiting for the Mutex
\* gets it when it is free again and again); the worker may stay inside a
\* sink write for ever.
CallerFairSpec ==
    /\ Spec
    /\ \A t \in Threads : SF_vars(append_lock(t)) /\ WF_vars(append_send(t))

\* ------------------------------------------------- the rewrite on its own
\* Pieces of record texts: ".", a newline, "/", "#FS", "#FS#", "#FE#", "$0",
\* and a whole marked path "#FS#/a/b#FE#".
Parts ==
    { <<46>>, <<10>>, <<47>>, <<35, 70, 83>>, <<35, 70, 83, 35>>, <<35, 70, 69, 35>>,
      <<36, 48>>, <<35, 70, 83, 35, 47, 97, 47, 98, 35, 70, 69, 35>> }

\* The texts made of at most n pieces.
RECURSIVE TextsOf(_)
TextsOf(n) ==
    IF n = 0 THEN {<<>>}
    ELSE LET T == TextsOf(n - 1) IN T \cup {t \o p : t \in T, p \in Parts}

Texts == TextsOf(MaxParts)

\* An appender on a WebSocket whose queue has accepted one record, encoded
\* as any of the texts; the worker has not received it yet.
RewriteInit ==
    /\ config = NoConfig
    /\ created = "Ok"
    /\ sinkOpened = TRUE
    /\ cfg = [kind |-> "WebSocket", append |-> TRUE, prior |-> <<>>]
    /\ out = <<>>
    /\ pos = 0
    /\ frames = <<>>
    /\ \E text \in Texts :
          /\ queue = <<Log(<<1, 1>>, text)>>
          /\ accepted = <<[tag |-> <<1, 1>>, msg |-> text]>>
    /\ txAlive = TRUE
    /\ rxAlive = TRUE
    /\ lock = 0
    /\ pc = [t \in Threads |-> "idle"]
    /\ cmsg = [t \in Threads |-> <<>>]
    /\ ret = [t \in Threads |-> IF t = 1 THEN "Ok" ELSE "None"]
    /\ calls = [t \in Threads |-> IF t = 1 THEN 1 ELSE 0]
    /\ wpc = "recv"
    /\ wmsg = NoMsg
    /\ apc = "alive"
    /\ deq = <<>>
    /\ writes = <<>>
    /\ results = {[tag |-> <<1, 1>>, res |-> "Ok"]}
    /\ pendingAtDrop = 0

\* The worker receives the record, rewrites it and writes it.
RewriteNext ==
    \/ worker_recv
    \/ worker_write

RewriteSpec == RewriteInit /\ [][RewriteNext]_vars

\* ------------------------------------------------------------ properties
Range(f) == {f[i] : i \in DOMAIN f}
AcceptedTags == {accepted[i].tag : i \in DOMAIN accepted}
WrittenTags == {writes[i].tag : i \in DOMAIN writes}
FailedWrites == {i \in DOMAIN writes : ~writes[i].ok}
\* Accepted events whose bytes String::from_utf8 rejects.
Undecodable == {i \in DOMAIN accepted : ~from_utf8(accepted[i].msg)}
IndexIn(acc, tag) == CHOOSE k \in DOMAIN acc : acc[k].tag = tag

\* C1 (as stated): when the worker has terminated, every Log event the queue
\* accepted before Terminate was dequeued and passed to the sink's write
\* (where it may have failed); none was skipped for another reason.
C1_AllAcceptedReachWrite ==
    wpc = "done" =>
        \A i \in DOMAIN accepted :
            accepted[i].tag \in Range(deq) /\ accepted[i].tag \in WrittenTags

\* C1 (amended): when the worker has terminated, every Log event the queue
\* accepted before Terminate was dequeued, and was passed to the sink's
\* write unless its bytes are not valid UTF-8; the events passed to the
\* write are exactly the decodable ones.
C1_AcceptedWrittenOrUndecodable ==
    wpc = "done" =>
        /\ \A i \in DOMAIN accepted :
              /\ accepted[i].tag \in Range(deq)
              /\ (accepted[i].tag \in WrittenTags <=> i \notin Undecodable)
        /\ Len(deq) = Len(accepted)

\* C1 witness: the worker has terminated after two accepted events, one of
\* them undecodable and one whose write failed.
C1_Witness ==
    /\ wpc = "done"
    /\ Len(accepted) = 2
    /\ Undecodable # {}
    /\ FailedWrites # {}

\* C2: the records reach the sink in the order in which they were enqueued,
\* and two records of one thread in the order of their append calls.
C2_SinkOrderIsQueueOrder ==
    /\ WrittenTags \subseteq AcceptedTags
    /\ \A i, j \in DOMAIN writes :
          i < j =>
             /\ IndexIn(accepted, writes[i].tag) < IndexIn(accepted, writes[j].tag)
             /\ (writes[i].tag[1] = writes[j].tag[1] => writes[i].tag[2] < writes[j].tag[2])

\* C2 witness: two records appended by the same thread have both been
\* handed to the sink.
C2_Witness ==
    /\ Len(writes) = 2
    /\ writes[1].tag[1] = writes[2].tag[1]

\* C3: once the owner has started to drop the appender, the drop returns.
C3_TeardownCompletes == (apc = "lock") ~> (apc = "dropped")

\* C3 witness: a teardown has completed that found two Log events pending
\* in the queue when it sent Terminate.
C3_Witness ==
    /\ apc = "dropped"
    /\ pendingAtDrop = 2

\* C4: whenever teardown has completed the worker is Terminated, and from
\* then on no sink write is performed and the destination does not change.
C4_TeardownIsSyncPoint ==
    /\ [](apc = "dropped" => wpc = "done")
    /\ [][apc = "dropped" => UNCHANGED <<out, pos, frames, writes>>]_vars

\* C4 witness: teardown has completed after the sink was written to.
C4_Witness ==
    /\ apc = "dropped"
    /\ Len(writes) >= 1

\* The wire content for a sequence of written records: each payload
\* followed by the three bytes 254, 253, 255.
RECURSIVE Framed(_)
Framed(ws) ==
    IF ws = <<>> THEN <<>>
    ELSE Head(ws).buf \o <<254, 253, 255>> \o Framed(Tail(ws))

C6_TruncateLeavesOnlyRecords ==
    ( /\ cfg.kind = "File"
      /\ ~cfg.append
      /\ cfg.prior # <<>>
      /\ apc = "dropped"
      /\ [i \in DOMAIN accepted |-> accepted[i].msg] = << <<97>>, <<98>> >>
      /\ Len(writes) = 2
      /\ FailedWrites = {} )
    => out = <<97, 98>>

\* Accepted events enqueued behind the one a failed write was for.
AfterFailed(f) ==
    {i \in DOMAIN accepted : i > IndexIn(accepted, writes[f].tag)}

\* C7 (as stated): a failed write drops only its record, the worker stays
\* Running, and every later Log event is dequeued and passed to the write.
C7_LaterEventsAllWritten ==
    \A f \in FailedWrites :
        /\ Cardinality({j \in DOMAIN writes : writes[j].tag = writes[f].tag}) = 1
        /\ (wpc = "done" => apc \in {"sent", "join", "dropped"})
        /\ (wpc = "done" =>
               \A i \in AfterFailed(f) :
                   accepted[i].tag \in Range(deq) /\ accepted[i].tag \in WrittenTags)

\* C7 (amended): a failed write drops only its record (it is not retried),
\* the worker stays Running (it ends only after teardown sent Terminate),
\* and every later Log event is dequeued and, unless its bytes are not
\* valid UTF-8, passed to the sink's write.
C7_WriteFailureSwallowed ==
    \A f \in FailedWrites :
        /\ Cardinality({j \in DOMAIN writes : writes[j].tag = writes[f].tag}) = 1
        /\ (wpc = "done" => apc \in {"sent", "join", "dropped"})
        /\ (wpc = "done" =>
               \A i \in AfterFailed(f) :
                   /\ accepted[i].tag \in Range(deq)
                   /\ (from_utf8(accepted[i].msg) => accepted[i].tag \in WrittenTags))

\* C7 witness: the worker has terminated; the first record's write failed
\* and the second record was passed to the sink all the same.
C7_Witness ==
    /\ wpc = "done"
    /\ Len(writes) = 2
    /\ ~writes[1].ok

\* C8: an event that is no UTF-8 never reaches the sink and does not stop
\* the worker (it ends only after teardown sent Terminate); every valid
\* record enqueued behind it is still passed to the sink's write.
C8_UndecodableDiscarded ==
    \A u \in Undecodable :
        /\ accepted[u].tag \notin WrittenTags
        /\ (wpc = "done" => apc \in {"sent", "join", "dropped"})
        /\ (wpc = "done" =>
               \A i \in DOMAIN accepted :
                   (i > u /\ from_utf8(accepted[i].msg)) => accepted[i].tag \in WrittenTags)

\* C8 witness: the worker has terminated; the first event was undecodable
\* and the valid one behind it was written.
C8_Witness ==
    /\ wpc = "done"
    /\ Len(accepted) = 2
    /\ 1 \in Undecodable
    /\ accepted[2].tag \in WrittenTags

\* C9 (as stated): append returns an error only when the queue cannot take
\* the event, that is when the Receiver is gone.
C9_ErrorOnlyFromQueue ==
    \A r \in results : r.res # "Ok" => ~rxAlive

\* C9 (amended): append returns an error only when the encoder failed or
\* the queue cannot take the event (the Receiver is gone); the calls that
\* returned success are exactly the accepted Log events, one event each,
\* and a call that returned an error enqueued nothing.
C9_ErrorFromEncoderOrQueue ==
    /\ \A r \in results :
          /\ r.res \in {"Ok", "EncodeErr", "SendErr"}
          /\ (r.res = "SendErr" => ~rxAlive)
          /\ (r.res = "Ok" <=> r.tag \in AcceptedTags)
    /\ \A i, j \in DOMAIN accepted : accepted[i].tag = accepted[j].tag => i = j
    /\ \A i \in DOMAIN accepted : \E r \in results : r.tag = accepted[i].tag

\* C9 witness: one append returned the encoder's error and another one
\* returned success.
C9_Witness ==
    /\ \E r \in results : r.res = "EncodeErr"
    /\ \E r \in results : r.res = "Ok"

\* C10: the Mutex is held only by a thread that is at its send, and every
\* append that was started returns although nothing makes the worker move.
C10_AppendNeverWaitsOnWorker ==
    /\ [](\A t \in Threads : lock = t => pc[t] = "send")
    /\ \A t \in Threads : (pc[t] # "idle") ~> (pc[t] = "idle")

\* C10 witness: the worker is inside a sink write, and an append that
\* enqueued its event after that write began has returned.
C10_Witness ==
    /\ wpc = "write"
    /\ Len(accepted) > wmsg.seen
    /\ \A t \in Threads : pc[t] = "idle"

\* The errors deserialize returns for a config that is no map, lacks a
\* required key, or holds a value of the wrong type or form.
ConfigErrors ==
    { "config must be a map", "path must be a string", "path is required",
      "append must be a bool", "server_addr must be a string",
      "server_addr is required", "AddrParseError", "no_delay must be a boolean",
      "server_url must be a string", "server_url is required",
      "pattern must be a string" }

\* A config with a required field missing or a field invalid.
InvalidConfig(c) ==
    \/ ~c.map
    \/ c.creator = "File" /\ c.path # "Str"
    \/ c.creator = "TcpStream" /\ c.server_addr # "Str"
    \/ c.creator = "WebSocket" /\ c.server_url # "Str"
    \/ c.append = "NotBool"
    \/ c.no_delay = "NotBool"
    \/ c.pattern = "NotString"

\* C11: construction is all-or-nothing.  A creator handed an invalid config
\* returns a configuration error with no sink opened; a valid config yields
\* an appender or the sink's open/connect error; whenever an error was
\* returned there is no worker thread, no channel and no appender and the
\* destination is untouched; a worker exists only after deserialize
\* returned a working appender.
C11_ConstructionAllOrNothing ==
    /\ [](created # "Ok" =>
             /\ wpc = "none" /\ apc = "none" /\ ~txAlive /\ ~rxAlive
             /\ queue = <<>> /\ deq = <<>> /\ writes = <<>>
             /\ out = cfg.prior /\ frames = <<>>)
    /\ [](created \in ConfigErrors => ~sinkOpened)
    /\ [](wpc # "none" => created = "Ok" /\ apc # "none" /\ sinkOpened)
    /\ [][(created = "None" /\ created' # "None") =>
             /\ (InvalidConfig(config) => created' \in ConfigErrors)
             /\ (~InvalidConfig(config) => created' \in {"Ok", "io::Error"})
             /\ (created' = "Ok" =>
                    wpc' = "recv" /\ apc' = "alive" /\ txAlive' /\ rxAlive' /\ sinkOpened')
          ]_vars

\* C11 witness: the server creator was handed a map without `server_addr`
\* and has returned its error.
C11_Witness ==
    /\ created = "server_addr is required"
    /\ cfg.kind = "TcpStream"
    /\ wpc = "none"

\* The first separator at or after q that can end the directory part of a
\* marked span starting at st (0 when there is none).
RECURSIVE FirstSep(_, _, _)
FirstSep(s, st, q) ==
    IF q > Len(s) THEN 0
    ELSE IF SepAt(s, st, q) THEN q
    ELSE FirstSep(s, st, q + 1)

\* The text with each marked span, from its opening marker to the nearest
\* closing "#FE#", replaced by the name behind the span's last separator,
\* and every other byte kept.
RECURSIVE StripMarkers(_, _)
StripMarkers(s, i) ==
    IF i > Len(s) THEN <<>>
    ELSE IF HasAt(s, i, FS_MARK) /\ FirstSep(s, i, i + 3) # 0
         THEN LET r == NextHash(s, FirstSep(s, i, i + 3) + 1)
              IN  SubSeq(s, LastSep(s, i, r - 2) + 1, r - 1) \o StripMarkers(s, r + 4)
    ELSE <<s[i]>> \o StripMarkers(s, i + 1)

\* The accepted text a sync_write call was made for.
TextOf(w) == accepted[IndexIn(accepted, w.tag)].msg

\* C12: what the worker hands to the sink is the record's text with each
\* marked span replaced by just its name and every byte outside the marked
\* spans unchanged; a text without a marker arrives byte-identical.
C12_EachSpanReplacedByName ==
    /\ \A i \in DOMAIN writes : writes[i].buf = StripMarkers(TextOf(writes[i]), 1)
    /\ (cfg.kind = "WebSocket" =>
           \A k \in DOMAIN frames : \E i \in DOMAIN writes :
               frames[k] = StripMarkers(TextOf(writes[i]), 1))

\* C13: the rewrite is idempotent: rewriting the text the worker is about
\* to write gives that text again.
C13_RewriteIdempotent ==
    wpc = "write" => Rewrite(wmsg.buf) = wmsg.buf

\* Positions of the queue that hold a Terminate event.
TerminateAt == {i \in DOMAIN queue : queue[i].type = "Terminate"}

\* C14: on dequeuing Terminate the worker exits in that very step, writing
\* nothing; Terminated is absorbing: from then on the worker receives no
\* event, calls no write and the queue and the destination stay as they
\* are; and a Log event behind a Terminate in the queue is never written
\* (no Log event is ever behind Terminate: Terminate is the last event
\* sent and the queue's last element).
C14_TerminateExitsAndAbsorbs ==
    /\ [][(wpc = "recv" /\ queue # <<>> /\ Head(queue).type = "Terminate"
              /\ queue' # queue)
             => (wpc' = "done" /\ queue' = Tail(queue)
                    /\ UNCHANGED <<deq, writes, out, pos, frames>>)]_vars
    /\ [][wpc = "done"
             => (wpc' = "done" /\ UNCHANGED <<queue, deq, writes, out, pos, frames>>)]_vars
    /\ [](\A i \in TerminateAt : \A j \in DOMAIN queue :
             (j > i /\ queue[j].type = "Log") => queue[j].tag \notin WrittenTags)
    /\ [](TerminateAt \subseteq {Len(queue)})

\* C14 witness: the worker has exited on Terminate after it had received
\* and written two events that were pending when Terminate was sent.
C14_Witness ==
    /\ wpc = "done"
    /\ TerminateAt = {}
    /\ apc = "sent"
    /\ pendingAtDrop = 2
    /\ Len(writes) = 2

IsLog(e) == e.type = "Log"
\* The tags of the Log events in the queue, front first.
QueuedTags == [i \in DOMAIN SelectSeq(queue, IsLog) |-> SelectSeq(queue, IsLog)[i].tag]
AcceptedSeq == [i \in DOMAIN accepted |-> accepted[i].tag]
NoRepeat(f) == \A i, j \in DOMAIN f : f[i] = f[j] => i = j

\* C15: each accepted Log event is consumed exactly once.  The sink's write
\* is called at most once per dequeued event and only for dequeued events,
\* no event is dequeued twice, and the accepted events are, in order,
\* exactly the dequeued ones followed by those still in the queue: none
\* leaves the queue except by being dequeued.
C15_ConsumedExactlyOnce ==
    /\ Len(writes) <= Len(deq)
    /\ NoRepeat(deq)
    /\ NoRepeat([i \in DOMAIN writes |-> writes[i].tag])
    /\ WrittenTags \subseteq Range(deq)
    /\ AcceptedSeq = deq \o QueuedTags

\* C15 witness: one event was dequeued and written while another accepted
\* event is still in the queue.
C15_Witness ==
    /\ Len(deq) = 1
    /\ Len(writes) = 1
    /\ Len(QueuedTags) = 1

\* The bytes the first k sync_write calls got to the destination, in order.
RECURSIVE SentUpTo(_)
SentUpTo(k) == IF k = 0 THEN <<>> ELSE SentUpTo(k - 1) \o writes[k].sent

\* The payloads of the successful sync_write calls, in order.
WasOk(w) == w.ok
OkPayloads == [i \in DOMAIN SelectSeq(writes, WasOk) |-> SelectSeq(writes, WasOk)[i].buf]

\* C16: the console, file and WebSocket sinks do not frame.  Each of their
\* writes delivers bytes of the payload only, a successful one exactly the
\* payload; the console holds the delivered bytes one after the other, the
\* file holds them from the offset the writes started at (its end in append
\* mode, 0 otherwise), and the WebSocket has sent one message per
\* successful write, equal to its payload.
C16_OnlyStreamFrames ==
    cfg.kind # "TcpStream" =>
        /\ \A i \in DOMAIN writes :
              /\ Len(writes[i].sent) <= Len(writes[i].buf)
              /\ writes[i].sent = Prefix(writes[i].buf, Len(writes[i].sent))
              /\ (writes[i].ok => writes[i].sent = writes[i].buf)
        /\ (cfg.kind = "Stdout" => out = SentUpTo(Len(writes)))
        /\ (cfg.kind = "File" /\ cfg.append => out = cfg.prior \o SentUpTo(Len(writes)))
        /\ (cfg.kind = "File" /\ ~cfg.append =>
               out = WriteAt(cfg.prior, 0, SentUpTo(Len(writes))))
        /\ (cfg.kind = "WebSocket" => out = <<>> /\ frames = OkPayloads)
        /\ (cfg.kind # "WebSocket" => frames = <<>>)

\* C16 witness: two records were written with success to a WebSocket.
C16_Witness ==
    /\ cfg.kind = "WebSocket"
    /\ Len(writes) = 2
    /\ Len(frames) = 2

\* C17: the worker leaves Running only by dequeuing Terminate.  The step
\* that makes it Terminated takes a Terminate from the front of the queue;
\* while the appender is alive (teardown has not sent Terminate) the worker
\* is Running and the Receiver exists, whatever was dequeued, undecodable
\* or failed to be written; when the worker is Terminated, Terminate was
\* sent and has left the queue; and no append was rejected by the queue.
C17_WorkerEndsOnlyOnTerminate ==
    /\ [][(wpc # "done" /\ wpc' = "done")
             => (queue # <<>> /\ Head(queue).type = "Terminate" /\ queue' = Tail(queue))]_vars
    /\ [](apc \in {"alive", "lock"} => (wpc \in {"recv", "write"} /\ rxAlive))
    /\ [](wpc = "done" => (apc \in {"sent", "join", "dropped"} /\ TerminateAt = {}))
    /\ [](\A r \in results : r.res # "SendErr")

\* C17 witness: the appender is alive and the worker is Running on an
\* empty queue after it dequeued two events, one that was undecodable and
\* one whose write failed.
C17_Witness ==
    /\ apc = "alive"
    /\ wpc = "recv"
    /\ queue = <<>>
    /\ Len(deq) = 2
    /\ Undecodable # {}
    /\ FailedWrites # {}

\* C18: on a TCP stream the terminator follows a complete payload only.
\* What a sync_write call puts on the wire is a prefix of payload plus
\* terminator, so no terminator byte is sent for a record whose payload
\* write failed, and that call fails; a call succeeds exactly when payload
\* and terminator went out in full; and the wire is the calls' bytes back
\* to back, so the next record's bytes follow a partial payload directly.
C18_TerminatorOnlyAfterPayload ==
    cfg.kind = "TcpStream" =>
        /\ \A i \in DOMAIN writes :
              /\ Len(writes[i].sent) <= Len(writes[i].buf) + Len(MSG_TERMINATOR)
              /\ writes[i].sent =
                     Prefix(writes[i].buf \o MSG_TERMINATOR, Len(writes[i].sent))
              /\ (Len(writes[i].sent) < Len(writes[i].buf) => ~writes[i].ok)
              /\ (writes[i].ok <=> writes[i].sent = writes[i].buf \o MSG_TERMINATOR)
        /\ out = SentUpTo(Len(writes))

\* C18 witness: the payload write of the first record failed after part of
\* the payload had reached the wire, and the second record was written in
\* full behind it.
C18_Witness ==
    /\ cfg.kind = "TcpStream"
    /\ Len(writes) = 2
    /\ ~writes[1].ok
    /\ writes[1].sent # <<>>
    /\ Len(writes[1].sent) < Len(writes[1].buf)
    /\ writes[2].ok
    /\ out = writes[1].sent \o writes[2].buf \o MSG_TERMINATOR

\* C19: an append whose encoder fails returns that error and touches
\* nothing else.  In the step in which a call returns the encoder's error
\* the call is over, and the queue, the Mutex, the worker and the
\* destination are unchanged; such a call never enqueued an event.
C19_EncodeFailureLeavesNoTrace ==
    /\ [][\A t \in Threads :
             (calls'[t] # calls[t] /\ ret'[t] = "EncodeErr") =>
                 /\ pc'[t] = "idle"
                 /\ UNCHANGED <<queue, lock, txAlive, rxAlive, wpc, wmsg, out, pos, frames,
                                accepted, deq, writes>>]_vars
    /\ [](\A r \in results :
             r.res = "EncodeErr" =>
                 /\ r.tag \notin AcceptedTags
                 /\ \A i \in DOMAIN queue : queue[i].tag # r.tag)
    /\ [](\A t \in Threads : ret[t] = "EncodeErr" => (pc[t] = "idle" /\ lock # t))

\* C19 witness: a call has returned the encoder's error while an event
\* accepted earlier waits in the queue for the worker.
C19_Witness ==
    /\ \E t \in Threads : ret[t] = "EncodeErr" /\ pc[t] = "idle"
    /\ Len(queue) = 1
    /\ Head(queue).type = "Log"
    /\ wpc = "recv"
    /\ lock = 0

====
